---- MODULE Spec2Model ----
(***************************************************************************)
(* Model of src/main.py: class Avatar_Generator.                            *)
(*                                                                         *)
(* One generator instance is modelled.  Its fields are the variables       *)
(* width, background_color, square_color, first_half and final_image.      *)
(* A raster image is a record [w, h, px]: px is the sequence of the h rows, *)
(* each a sequence of w stored pixels, so pixel (x, y) is px[y + 1][x + 1]. *)
(* A stored pixel is the packed 24-bit value PIL keeps for an RGB colour.   *)
(* The outcome of the most recent call is kept in ret (the value returned)  *)
(* and err (the exception raised); last records which call it was and with  *)
(* which arguments; args keeps the constructor's colour arguments and flips *)
(* the cells whose coin flip came up true in Draw_Random_Squares.           *)
(*                                                                         *)
(* The caller may make any calls in any order, MaxCalls of them, except     *)
(* that a pattern is painted once per instance: Draw_Random_Squares is not  *)
(* called again once it has produced a final image.                        *)
(***************************************************************************)
EXTENDS Integers, Sequences, FiniteSets

VARIABLES width, background_color, square_color, first_half, final_image,
          args, flips, last, ret, err, calls

vars == <<width, background_color, square_color, first_half, final_image,
          args, flips, last, ret, err, calls>>

(***************************** bounds **************************************)
\* largest width passed to the constructor
MaxWidth == 8
\* largest explicit border width passed to Expand_Image
MaxBorder == 1
\* largest number of the 15 coin flips that come up true in one call
MaxTrue == 1
\* number of method calls made on the instance after construction
MaxCalls == 3

Widths == (0 - 1)..MaxWidth

\* colours a caller supplies (valid RGB triples)
BgSupplied == {<<10, 10, 10>>}
SqSupplied == {<<60, 60, 60>>}
\* sampled outcomes of the three calls randint(0, 255 + 1); randint returns
\* any integer from 0 to 256, both included
RandTriples == {<<256, 0, 206>>}
\* channel samples of the colour specification
ChanSamples == {10, 205, 206}
RandSamples == {0, 206, 256}

(************************** Python values **********************************)
\* None / an omitted colour argument (falsy in "if not background_color")
NoColor == <<>>
\* None as an image reference
NoneImage == [w |-> 0 - 1, h |-> 0 - 1, px |-> <<>>]
\* Expand_Image called without a border width (width=None)
NoBorder == 0 - 1

\* Python 3 round(n / d) for d > 0: nearest integer, ties to the even one
PyRound(n, d) ==
    LET q == n \div d
        r == n % d
    IN  IF 2 * r < d THEN q
        ELSE IF 2 * r > d THEN q + 1
        ELSE IF q % 2 = 0 THEN q ELSE q + 1

\* Python int(n / d) for d > 0: truncation towards zero
PyInt(n, d) == IF n >= 0 THEN n \div d ELSE 0 - ((0 - n) \div d)

(***************************** PIL rasters *********************************)
Clip8(v) == IF v < 0 THEN 0 ELSE IF v > 255 THEN 255 ELSE v

\* the pixel PIL stores for a colour argument: each channel clipped to 8 bits,
\* packed as r | g << 8 | b << 16
Ink(color) == Clip8(color[1]) + 256 * Clip8(color[2]) + 65536 * Clip8(color[3])

\* Image.new without a color argument fills with 0
Black == <<0, 0, 0>>

\* pixel (x, y) of an image
Pixel(img, x, y) == img.px[y + 1][x + 1]

\* Image.new(mode='RGB', size=(w, h), color=color), w >= 0 and h >= 0
NewImage(w, h, color) ==
    [w |-> w, h |-> h, px |-> [y \in 1..h |-> [x \in 1..w |-> Ink(color)]]]

RectangleExclusive(img, x0, y0, x1, y1, fill) ==
    [img EXCEPT !.px = [y \in 1..img.h |-> [x \in 1..img.w |->
        IF x - 1 >= x0 /\ x - 1 < x1 /\ y - 1 >= y0 /\ y - 1 < y1
        THEN Ink(fill) ELSE img.px[y][x]]]]

\* ImageDraw.rectangle([(x0, y0), (x1, y1)], fill=fill): both corners are
\* included, and what falls outside the image is dropped
Rectangle(img, x0, y0, x1, y1, fill) ==
    [img EXCEPT !.px = [y \in 1..img.h |-> [x \in 1..img.w |->
        IF x - 1 >= x0 /\ x - 1 <= x1 /\ y - 1 >= y0 /\ y - 1 <= y1
        THEN Ink(fill) ELSE img.px[y][x]]]]

\* ImageOps.mirror(img): flip left to right
Mirror(img) ==
    [img EXCEPT !.px = [y \in 1..img.h |-> [x \in 1..img.w |->
        img.px[y][img.w + 1 - x]]]]

\* dst.paste(src, (ox, oy)): the part of src outside dst is dropped
Paste(dst, src, ox, oy) ==
    [dst EXCEPT !.px = [y \in 1..dst.h |-> [x \in 1..dst.w |->
        IF /\ x - 1 - ox >= 0 /\ x - 1 - ox < src.w
           /\ y - 1 - oy >= 0 /\ y - 1 - oy < src.h
        THEN src.px[y - oy][x - ox] ELSE dst.px[y][x]]]]

\* ImageOps.expand(img, border=b, fill=fill), b >= 0
Expand(img, b, fill) ==
    Paste(NewImage(img.w + 2 * b, img.h + 2 * b, fill), img, b, b)

(************************** Avatar_Generator *******************************)
LighterUnclamped(value) == value + 50

\* one turn of the loop of Make_RGB_Lighter: the channel it appends
Lighter(value) ==
    LET new_value == value + 50
    IN  IF new_value <= 255 THEN new_value ELSE 255

\* the tuple Make_RGB_Lighter returns for background colour bg
Make_RGB_Lighter_Value(bg) == <<Lighter(bg[1]), Lighter(bg[2]), Lighter(bg[3])>>

HalfWidthUp(w) == (w + 1) \div 2

\* round(self.width / 2)
HalfWidth(w) == PyRound(w, 2)

\* round((self.width / 2) / 3)
max_square_size(w) == PyRound(w, 6)

DefaultBorderRounded(w) == PyRound(w * 125, 1000)

\* int((self.width * 125) / 1000)
DefaultBorder(w) == PyInt(w * 125, 1000)

\* the grid cells <<x, y>>; cell number k in the order of the loops (y outer,
\* x inner)
Cells == (0..2) \X (0..4)
CellAt(k) == <<k % 3, k \div 3>>

\* outcomes of the 15 calls bool(getrandbits(1)): the set of cells that came
\* up true
FlipOutcomes == {f \in SUBSET Cells : Cardinality(f) <= MaxTrue}

\* the two nested loops of Draw_Random_Squares from cell number k on
RECURSIVE DrawCells(_, _, _, _, _)
DrawCells(img, k, f, size, color) ==
    IF k = 15 THEN img
    ELSE LET x == CellAt(k)[1]
             y == CellAt(k)[2]
             drawn == IF CellAt(k) \in f
                      THEN Rectangle(img, size * x, size * y,
                                     size * x + size, size * y + size, color)
                      ELSE img
         IN  DrawCells(drawn, k + 1, f, size, color)

\* a call that returned None, and a call that raised
NoRet == [kind |-> "None", img |-> NoneImage, rgb |-> NoColor]
Raised == [kind |-> "raised", img |-> NoneImage, rgb |-> NoColor]

Call(op) == [op |-> op, border |-> NoBorder, save |-> FALSE, show |-> FALSE,
             dirOk |-> TRUE, pre |-> FALSE]

\* __init__(width, background_color, square_color); rnd is the triple drawn
\* by randint when no background colour is given
Construct(w, bgArg, sqArg, rnd) ==
    LET bg == IF bgArg = NoColor THEN rnd ELSE bgArg
    IN  /\ width = w
        /\ first_half = NoneImage
        /\ final_image = NoneImage
        /\ background_color = bg
        /\ square_color = IF sqArg = NoColor THEN Make_RGB_Lighter_Value(bg)
                          ELSE sqArg
        /\ args = [background_color |-> bgArg, square_color |-> sqArg]
        /\ flips = {}
        /\ last = Call("__init__")
        /\ ret = NoRet
        /\ err = "none"
        /\ calls = 0

Init ==
    \E w \in Widths, bgArg \in BgSupplied \cup {NoColor},
       sqArg \in SqSupplied \cup {NoColor}, rnd \in RandTriples :
        Construct(w, bgArg, sqArg, rnd)

\* the constructor called without a square colour
InitGeometry ==
    \E w \in Widths, bgArg \in BgSupplied \cup {NoColor}, rnd \in RandTriples :
        Construct(w, bgArg, NoColor, rnd)

InitColor ==
    \E bgArg \in [1..3 -> ChanSamples] \cup {NoColor},
       sqArg \in SqSupplied \cup {NoColor}, rnd \in [1..3 -> RandSamples] :
        /\ bgArg # NoColor => rnd = [i \in 1..3 |-> 0]
        /\ Construct(2, bgArg, sqArg, rnd)

\* a direct call: it also overwrites self.square_color (line 64), with a list
\* of the same channel values as the tuple it returns
Make_RGB_Lighter ==
    /\ calls < MaxCalls
    /\ square_color' = Make_RGB_Lighter_Value(background_color)
    /\ ret' = [kind |-> "color", img |-> NoneImage,
               rgb |-> Make_RGB_Lighter_Value(background_color)]
    /\ err' = "none"
    /\ last' = Call("Make_RGB_Lighter")
    /\ calls' = calls + 1
    /\ UNCHANGED <<width, background_color, first_half, final_image, args,
                   flips>>

Create_First_Half ==
    /\ calls < MaxCalls
    /\ last' = Call("Create_First_Half")
    /\ calls' = calls + 1
    /\ IF HalfWidth(width) < 0 \/ width < 0
       THEN \* Image.new rejects a negative size
            /\ err' = "ValueError"
            /\ ret' = Raised
            /\ UNCHANGED first_half
       ELSE /\ first_half' = NewImage(HalfWidth(width), width, background_color)
            /\ ret' = [kind |-> "image", img |-> first_half', rgb |-> NoColor]
            /\ err' = "none"
    /\ UNCHANGED <<width, background_color, square_color, final_image, args,
                   flips>>

Draw_Random_Squares ==
    /\ calls < MaxCalls
    /\ final_image = NoneImage
    /\ calls' = calls + 1
    /\ last' = Call("Draw_Random_Squares")
    /\ IF first_half = NoneImage
       THEN \* ImageDraw.Draw(None)
            /\ err' = "AttributeError"
            /\ ret' = Raised
            /\ UNCHANGED <<first_half, final_image, flips>>
       ELSE \E f \in FlipOutcomes :
            LET painted == DrawCells(first_half, 0, f, max_square_size(width),
                                     square_color)
                mirror == Mirror(painted)
                blank == NewImage(width, width, Black)
            IN  /\ flips' = f
                /\ first_half' = painted
                /\ final_image' =
                       Paste(Paste(blank, painted, 0, 0), mirror, painted.w, 0)
                /\ ret' = NoRet
                /\ err' = "none"
    /\ UNCHANGED <<width, background_color, square_color, args>>

Expand_Image(b) ==
    /\ calls < MaxCalls
    /\ calls' = calls + 1
    /\ last' = [Call("Expand_Image") EXCEPT
                   !.border = b,
                   !.pre = (last.op = "Draw_Random_Squares" /\ err = "none")]
    /\ LET border == IF b = NoBorder \/ b = 0 THEN DefaultBorder(width) ELSE b
       IN  IF final_image = NoneImage
           THEN \* ImageOps.expand(None, ...)
                /\ err' = "AttributeError"
                /\ ret' = Raised
                /\ UNCHANGED final_image
           ELSE /\ final_image' = Expand(final_image, border, background_color)
                /\ ret' = NoRet
                /\ err' = "none"
    /\ UNCHANGED <<width, background_color, square_color, first_half, args,
                   flips>>

\* dirOk: the directory exists and is writable
Get_Result(save, show, dirOk) ==
    /\ calls < MaxCalls
    /\ calls' = calls + 1
    /\ last' = [Call("Get_Result") EXCEPT
                   !.save = save, !.show = show, !.dirOk = dirOk]
    /\ IF (show \/ save) /\ final_image = NoneImage
       THEN \* None.show() / None.save(...)
            /\ err' = "AttributeError"
            /\ ret' = Raised
       ELSE IF save /\ ~dirOk
       THEN \* Image.save cannot open the file
            /\ err' = "OSError"
            /\ ret' = Raised
       ELSE IF save /\ (final_image.w = 0 \/ final_image.h = 0)
       THEN \* the JPEG writer rejects an empty image
            /\ err' = "ValueError"
            /\ ret' = Raised
       ELSE /\ err' = "none"
            /\ ret' = IF final_image = NoneImage THEN NoRet
                      ELSE [kind |-> "image", img |-> final_image,
                            rgb |-> NoColor]
    /\ UNCHANGED <<width, background_color, square_color, first_half,
                   final_image, args, flips>>

Next ==
    \/ Make_RGB_Lighter
    \/ Create_First_Half
    \/ Draw_Random_Squares
    \/ \E b \in {NoBorder} \cup (0..MaxBorder) : Expand_Image(b)
    \/ \E save \in BOOLEAN, show \in BOOLEAN, dirOk \in BOOLEAN :
           Get_Result(save, show, dirOk)

\* the calls that build the image
NextGeometry ==
    \/ Create_First_Half
    \/ Draw_Random_Squares
    \/ \E b \in {NoBorder} \cup (0..MaxBorder) : Expand_Image(b)

\* the calls that derive and use the colours
NextColor ==
    \/ Make_RGB_Lighter
    \/ Create_First_Half
    \/ Draw_Random_Squares

Spec == Init /\ [][Next]_vars

SpecGeometry == InitGeometry /\ [][NextGeometry]_vars

SpecColor == InitColor /\ [][NextColor]_vars

(******************************* claims ************************************)
Min(a, b) == IF a <= b THEN a ELSE b

\* Draw_Random_Squares was the last call and it returned
Drawn == last.op = "Draw_Random_Squares" /\ err = "none"

\* Expand_Image was the last call, made on the canvas Draw_Random_Squares left
ExpandedPreBorder == last.op = "Expand_Image" /\ last.pre /\ err = "none"

\* h is round(w / 2): a nearest integer to w / 2, the even one on a tie
IsHalfRounded(h, w) ==
    /\ 2 * h - w \in {0 - 1, 0, 1}
    /\ 2 * h # w => h % 2 = 0

IsRaster(img, w, h) ==
    /\ img.w = w /\ img.h = h
    /\ Len(img.px) = h
    /\ \A y \in 1..h : Len(img.px[y]) = w

\* pixel (x, y) lies in the rectangle drawn for cell c
InCell(c, x, y) ==
    LET cellSize == PyRound(width, 6)
    IN  /\ x >= cellSize * c[1] /\ x <= cellSize * c[1] + cellSize
        /\ y >= cellSize * c[2] /\ y <= cellSize * c[2] + cellSize

\* C1: for every width W >= 2 the canvas Draw_Random_Squares leaves is
\* left-right symmetric: pixel(x, y) = pixel(W-1-x, y) for all x, y in 0..W-1.
C1_MirrorSymmetry ==
    (Drawn /\ width >= 2) =>
        \A x \in 0..(width - 1), y \in 0..(width - 1) :
            Pixel(final_image, x, y) = Pixel(final_image, width - 1 - x, y)

\* C2: when no square colour was supplied, every channel of square_color is
\* min(c + 50, 255) for the channel c of the background colour, and a later
\* call of Make_RGB_Lighter returns that same triple.
C2_DerivedSquareColor ==
    LET lighter == [i \in 1..3 |-> Min(background_color[i] + 50, 255)]
    IN  /\ args.square_color = NoColor => square_color = lighter
        /\ last.op = "Make_RGB_Lighter" =>
               /\ ret.kind = "color" /\ ret.rgb = lighter
               /\ args.square_color = NoColor => ret.rgb = square_color

C2_Witness ==
    /\ args.square_color = NoColor
    /\ last.op = "Make_RGB_Lighter"
    /\ background_color = <<206, 10, 205>>
    /\ ret.rgb = <<255, 60, 255>>
    /\ square_color = <<255, 60, 255>>

\* C3 as claimed: Expand_Image without a border width, on the W x W canvas,
\* yields a square canvas of side W + 2 * round(W * 125 / 1000).
C3_DefaultBorderRounded ==
    (ExpandedPreBorder /\ last.border = NoBorder /\ width >= 1) =>
        IsRaster(final_image, width + 2 * PyRound(width * 125, 1000),
                 width + 2 * PyRound(width * 125, 1000))

\* C3 as amended: Expand_Image without a border width, on the W x W canvas,
\* yields a square canvas of side W + 2 * floor(W * 125 / 1000).
C3_DefaultBorderTruncated ==
    (ExpandedPreBorder /\ last.border = NoBorder /\ width >= 1) =>
        IsRaster(final_image, width + 2 * ((width * 125) \div 1000),
                 width + 2 * ((width * 125) \div 1000))

C3_Witness ==
    /\ ExpandedPreBorder /\ last.border = NoBorder
    /\ width = 8
    /\ final_image.w = 10 /\ final_image.h = 10

\* C4: after construction every channel of background_color and of
\* square_color is an integer from 0 to 255.
C4_ChannelsInRange ==
    \A i \in 1..3 :
        /\ background_color[i] \in 0..255
        /\ square_color[i] \in 0..255

\* C5: a generator of width <= 0 has failed with InvalidDimension and holds
\* neither a half canvas nor a final canvas.
C5_InvalidDimension ==
    width <= 0 =>
        /\ err = "InvalidDimension"
        /\ first_half = NoneImage
        /\ final_image = NoneImage

\* C6: Get_Result on a generator of valid width that holds a final canvas
\* returns that canvas, whatever the save and show flags and whether or not
\* the file can be written.
C6_GetResultReturnsFinal ==
    (last.op = "Get_Result" /\ width >= 1 /\ final_image # NoneImage) =>
        /\ ret.kind = "image"
        /\ ret.img = final_image

\* C7: Expand_Image(b) with an explicit border width b >= 0, b = 0 included,
\* on the W x W canvas yields a canvas of dimensions (W + 2b, W + 2b).
C7_ExplicitBorder ==
    (ExpandedPreBorder /\ last.border # NoBorder /\ width >= 1) =>
        IsRaster(final_image, width + 2 * last.border, width + 2 * last.border)

\* C8: for every valid width W the half canvas has dimensions
\* (round(W / 2), W), and the canvas Draw_Random_Squares leaves has
\* dimensions (W, W).
C8_Dimensions ==
    width >= 1 =>
        /\ first_half # NoneImage =>
               /\ IsHalfRounded(first_half.w, width)
               /\ IsRaster(first_half, first_half.w, width)
        /\ Drawn => IsRaster(final_image, width, width)

C8_Witness ==
    /\ Drawn
    /\ width = 5
    /\ first_half.w = 2 /\ first_half.h = 5
    /\ final_image.w = 5 /\ final_image.h = 5

C10_NoInvalidCallOrder ==
    /\ err # "AttributeError"
    /\ (last.op = "Get_Result" /\ err = "none") => ret.kind = "image"

====
